---- MODULE Spec2Model ----
(***************************************************************************)
(* Model of the command path of MarvinBot (src/marvin.py): message_handler *)
(* and the handlers start, comment, postlink, posttext, delrule, with the  *)
(* helpers they call.  Updates are handled one at a time (the dispatcher   *)
(* calls message_handler synchronously); a handler is split at its remote  *)
(* calls, each of which may raise.  An exception that no handler catches   *)
(* ends the command (the dispatcher passes it to error_handler).           *)
(* The thread of check_new_reddit_posts is explored by SpecRelay.          *)
(* main is explored by SpecStartup, the text add_default_comment builds by *)
(* SpecTemplate, and delete_message_if_admin under a dispatcher that runs  *)
(* two handlers at once by SpecPool.                                       *)
(***************************************************************************)
EXTENDS Integers, Sequences, FiniteSets, TLC

\* ------------------------------------------------------------------ bounds
MaxUrls     == 2   \* URL entities in a replied-to message
MaxTitleLen == 7   \* characters of a /posttext title
MaxWork     == 2   \* submissions created + comments added + deletions pending
MaxStream   == 4   \* submissions the stream yields
MaxPieces   == 3   \* placeholders and literals in the comment file
MaxHandled  == 2   \* updates the dispatcher passes on after startup
MaxArrived  == 3   \* updates the pooled handlers take

\* ------------------------------------------------------------- configuration
authorized_group_id == 1
MinTitleLen == 6
UnknownCommandDelay == 5

OtherChatId == authorized_group_id + 1
Chats == {authorized_group_id, OtherChatId}

\* self.subreddit is the praw Subreddit object of the configured community,
\* not a string.
subreddit == [type |-> "Subreddit", display_name |-> "own"]

\* self.rules: rule number -> rule text
rules == [n \in {3} |-> "No spam"]

\* ChatMember.status values
Statuses == {"creator", "administrator", "member"}

\* ---------------------------------------------------------------- updates
\* A URL entity: its scheme ("" when it has none) and the submission that
\* Submission.id_from_url reads from it ("invalid" when it raises ClientException).
Urls == { [scheme |-> "https", sid |-> "own"],
          [scheme |-> "https", sid |-> "locked"],
          [scheme |-> "http",  sid |-> "foreign"],
          [scheme |-> "",      sid |-> "invalid"],
          [scheme |-> "ftp",   sid |-> "invalid"] }

\* The URL entities of a replied-to message, in the order of the text: none,
\* one, or up to MaxUrls of which the last may differ from the others.
UrlLists ==
  {<<>>} \cup { [i \in 1..n |-> IF i < n THEN y ELSE x] :
                  n \in 1..MaxUrls, x \in Urls, y \in Urls }

RECURSIVE Rep(_, _)
Rep(c, n) == IF n = 0 THEN <<>> ELSE <<c>> \o Rep(c, n - 1)

\* Texts are sequences of one-character strings.  The text of an update is
\* the command token followed by arg; no arg contains the command token.
TitleArgs == {Rep("a", n) : n \in 0..MaxTitleLen} \cup {<<" ", "a", "a", " ">>}
RuleArgs  == { <<>>, <<"3">>, <<"x">>, <<"9", "9">>, <<"3", " ", "a", "b">>,
               <<" ", "3", " ">>, <<"3", " ", "a", "3">>, <<"3", " ", "3">> }

\* from_user.username (or last_name) of a user who has none is None
NoName == "None"

\* update.message.from_user: a user with a public handle, one without, one
\* with neither handle nor last name
Users == { [username |-> "handle", first_name |-> "Ada", last_name |-> "Rossi"],
           [username |-> NoName,   first_name |-> "Ada", last_name |-> "Rossi"],
           [username |-> NoName,   first_name |-> "Ada", last_name |-> NoName] }

Update(k, c, r, us, a) ==
  [kind |-> k, chat |-> c, isReply |-> r, urls |-> us, arg |-> a,
   from_user |-> [username |-> "handle", first_name |-> "Ada", last_name |-> "Rossi"]]

NoUpdate == Update("none", 0, FALSE, <<>>, <<>>)

\* The updates the model draws from.  A message that is no reply has no reply
\* target, hence no URL entities; only /posttext and /delrule read their
\* argument; in another chat than the authorized group every handler but
\* start returns after its first check, so few updates are drawn there; the
\* sender's names are read by the denial fallback only, so they vary on a
\* /comment that is no reply.
Updates ==
  LET A == authorized_group_id
      O == OtherChatId
      Short == {us \in UrlLists : Len(us) <= 1 /\ \A i \in 1..Len(us) : us[i].scheme # ""}
  IN  { Update(k, c, FALSE, <<>>, <<>>) :
          k \in {"start", "other", "plain", "comment", "postlink", "delrule"}, c \in Chats }
      \cup { Update(k, A, TRUE, us, <<>>) : k \in {"comment", "postlink"}, us \in UrlLists }
      \cup { Update(k, O, TRUE, us, <<>>) : k \in {"comment", "postlink"}, us \in Short }
      \cup { Update("posttext", A, r, <<>>, a) : r \in BOOLEAN, a \in TitleArgs }
      \cup { Update("posttext", O, r, <<>>, Rep("a", MinTitleLen)) : r \in BOOLEAN }
      \cup { Update("delrule", A, TRUE, us, <<"3">>) : us \in UrlLists }
      \cup { Update("delrule", A, TRUE, us, a) : us \in Short, a \in RuleArgs }
      \cup { Update("delrule", O, TRUE, us, <<"3">>) : us \in Short }
      \cup { [Update("comment", c, FALSE, <<>>, <<>>) EXCEPT !.from_user = w] :
               c \in Chats, w \in Users }

\* ------------------------------------------------------------ text helpers
IsSpace(c) == c = " "

RECURSIVE LStrip(_)
LStrip(s) == IF s # <<>> /\ IsSpace(Head(s)) THEN LStrip(Tail(s)) ELSE s

RECURSIVE RStrip(_)
RStrip(s) ==
  IF s # <<>> /\ IsSpace(s[Len(s)]) THEN RStrip(SubSeq(s, 1, Len(s) - 1)) ELSE s

\* str.strip()
Strip(s) == RStrip(LStrip(s))

\* str.split(): the maximal runs of non-space characters
RECURSIVE SplitFrom(_, _, _)
SplitFrom(s, cur, acc) ==
  IF s = <<>> THEN (IF cur = <<>> THEN acc ELSE Append(acc, cur))
  ELSE IF IsSpace(Head(s))
       THEN SplitFrom(Tail(s), <<>>, IF cur = <<>> THEN acc ELSE Append(acc, cur))
       ELSE SplitFrom(Tail(s), Append(cur, Head(s)), acc)

Split(s) == SplitFrom(s, <<>>, <<>>)

Digits == <<"0", "1", "2", "3", "4", "5", "6", "7", "8", "9">>
IsDigit(c) == \E i \in 1..10 : Digits[i] = c
DigitVal(c) == (CHOOSE i \in 1..10 : Digits[i] = c) - 1

RECURSIVE DecVal(_, _)
DecVal(s, acc) == IF s = <<>> THEN acc ELSE DecVal(Tail(s), 10 * acc + DigitVal(Head(s)))

\* int(token): the value, or -1 for ValueError (no token here has a sign)
ParseInt(tok) ==
  IF tok # <<>> /\ \A i \in 1..Len(tok) : IsDigit(tok[i]) THEN DecVal(tok, 0) ELSE -1


\* str(n) for n >= 0
RECURSIVE IntToStr(_)
IntToStr(n) == IF n < 10 THEN <<Digits[n + 1]>> ELSE IntToStr(n \div 10) \o <<Digits[(n % 10) + 1]>>

IsPrefix(p, s) == Len(p) <= Len(s) /\ SubSeq(s, 1, Len(p)) = p

\* str.replace(pat, ""): every non-overlapping occurrence, left to right
RECURSIVE RemoveAll(_, _)
RemoveAll(s, pat) ==
  IF s = <<>> \/ pat = <<>> THEN s
  ELSE IF IsPrefix(pat, s) THEN RemoveAll(SubSeq(s, Len(pat) + 1, Len(s)), pat)
       ELSE <<Head(s)>> \o RemoveAll(Tail(s), pat)

\* a variant that replaces the first occurrence only
RECURSIVE replace_first(_, _, _)
replace_first(s, pat, by) ==
  IF s = <<>> \/ pat = <<>> THEN s
  ELSE IF IsPrefix(pat, s) THEN by \o SubSeq(s, Len(pat) + 1, Len(s))
       ELSE <<Head(s)>> \o replace_first(Tail(s), pat, by)

\* str.replace(pat, by): every non-overlapping occurrence, left to right
RECURSIVE replace(_, _, _)
replace(s, pat, by) ==
  IF s = <<>> \/ pat = <<>> THEN s
  ELSE IF IsPrefix(pat, s) THEN by \o replace(SubSeq(s, Len(pat) + 1, Len(s)), pat, by)
       ELSE <<Head(s)>> \o replace(Tail(s), pat, by)

\* pat in s
RECURSIVE Contains(_, _)
Contains(s, pat) ==
  IF Len(s) < Len(pat) THEN FALSE
  ELSE IsPrefix(pat, s) \/ Contains(Tail(s), pat)

RECURSIVE Flatten(_)
Flatten(ss) == IF ss = <<>> THEN <<>> ELSE Head(ss) \o Flatten(Tail(ss))

\* ------------------------------------------------------------------- plans
\* What a handler does next, once its local checks up to the next remote
\* call are evaluated: send a denial, make a remote query, run a list of
\* remote calls, raise, or return.
Goto(l)  == [next |-> l,       deny |-> "none", err |-> "none", todo |-> <<>>]
Deny(t)  == [next |-> "deny",  deny |-> t,      err |-> "none", todo |-> <<>>]
Run(ops) == [next |-> "run",   deny |-> "none", err |-> "none", todo |-> ops]
Raise(e) == [next |-> "raise", deny |-> "none", err |-> e,      todo |-> <<>>]
Return   == [next |-> "done",  deny |-> "none", err |-> "none", todo |-> <<>>]

\* A remote call: op on target tgt with payload a
Op(o, t, a) == [op |-> o, tgt |-> t, a |-> a]

MutatingOps == {"submit", "reply", "distinguish", "remove", "lock"}

\* ---------------------------------------------------------------- helpers
\* a variant that accepts every member of the chat
is_sender_admin_any_member(status) == status \in Statuses

is_sender_admin(status) == status = "administrator" \/ status = "creator"

is_message_in_correct_group(chat) == chat = authorized_group_id

\* dict.popitem() on the dict parse_entities built: the last URL entity
popitem(urls) == urls[Len(urls)]

\* Submission.id_from_url
id_from_url(url) == url.sid

\* a variant that posts the comment and does not distinguish it
add_default_comment_plain == << Op("reply", "new", "boilerplate") >>

\* post_submission.reply(string_to_send), then comment.mod.distinguish(sticky=True)
add_default_comment ==
  << Op("reply", "new", "boilerplate"), Op("distinguish", "new", "sticky") >>

confirmation(text) == Op("send_message", "authorized_group", text)

\* the url argument of a submit that has none (a self-text post)
NoUrl == [scheme |-> "", sid |-> "none"]

\* subreddit.submit(title, url=...) or subreddit.submit(title, selftext=...)
submit(kind, url) == Op("submit", "subreddit", [kind |-> kind, url |-> url])

\* ------------------------------------------------------------------- start
start(u) ==
  IF u.chat # authorized_group_id
  THEN Run(<< Op("reply_text", "chat", "welcome") >>)
  ELSE Goto("dmia")

\* ----------------------------------------------------------------- comment
\* a variant that asks for the sender's membership, as the other handlers do
comment_moderators_only(u) ==
  IF ~is_message_in_correct_group(u.chat) THEN Deny("WRONG_GROUP")
  ELSE IF ~u.isReply THEN Deny("NEED_REPLY")
  ELSE Goto("q_admin")

comment(u) ==
  IF ~is_message_in_correct_group(u.chat) THEN Deny("WRONG_GROUP")
  ELSE IF ~u.isReply THEN Deny("NEED_REPLY")
  ELSE IF u.urls = <<>> THEN Deny("NO_LINK_IN_REPLY")
  ELSE IF id_from_url(popitem(u.urls)) = "invalid" THEN Deny("INVALID_REDDIT_LINK")
  ELSE Goto("fetch")

\* a variant without the community check
comment_fetched_any_community(u, sub) ==
  IF sub.locked THEN Deny("POST_LOCKED")
  ELSE Run(<< Op("reply", id_from_url(popitem(u.urls)), "comment"),
              confirmation("comment_added") >>)

\* a variant without the lock check
comment_fetched_ignoring_lock(u, sub) ==
  IF sub.community = subreddit.display_name
  THEN Run(<< Op("reply", id_from_url(popitem(u.urls)), "comment"),
              confirmation("comment_added") >>)
  ELSE Deny("WRONG_SUBREDDIT")

comment_fetched(u, sub) ==
  IF sub.community = subreddit.display_name
  THEN IF sub.locked THEN Deny("POST_LOCKED")
       ELSE Run(<< Op("reply", id_from_url(popitem(u.urls)), "comment"),
                   confirmation("comment_added") >>)
  ELSE Deny("WRONG_SUBREDDIT")

\* ---------------------------------------------------------------- postlink
\* a variant that looks for the reply target before it looks at the chat
postlink_reply_first(u) ==
  IF ~u.isReply THEN Deny("NEED_REPLY")
  ELSE IF ~is_message_in_correct_group(u.chat) THEN Deny("WRONG_GROUP")
  ELSE Goto("q_admin")

postlink(u) ==
  IF ~is_message_in_correct_group(u.chat) THEN Deny("WRONG_GROUP")
  ELSE IF ~u.isReply THEN Deny("NEED_REPLY")
  ELSE Goto("q_admin")

\* a variant that leaves a link without scheme as it is
link_to_post_as_given(u) == popitem(u.urls)

\* the link after the scheme check: 'https://' is put before a link that has
\* no scheme
link_to_post(u) ==
  LET url == popitem(u.urls)
  IN  IF url.scheme = "" THEN [url EXCEPT !.scheme = "https"] ELSE url

postlink_admin(u, isAdmin) ==
  IF ~isAdmin THEN Deny("NOT_ADMIN")
  ELSE IF u.urls = <<>> THEN Deny("NO_URL")
  ELSE IF Len(u.urls) > 1 THEN Deny("MULTIPLE_URLS")
  ELSE IF popitem(u.urls).scheme # "" /\ popitem(u.urls).scheme \notin {"http", "https"}
       THEN Deny("NOT_HTTP")
  ELSE Goto("web_get")

\* a variant that submits whatever the title fetch returned
postlink_title_unchecked(u, title) ==
  Run(<< submit("link", link_to_post(u)) >> \o add_default_comment
      \o << confirmation("post_created") >>)

\* "if not link_page_title": None and the empty string are no title
postlink_title(u, title) ==
  IF title \in {"none", ""} THEN Deny("NO_PAGE_TITLE")
  ELSE Run(<< submit("link", link_to_post(u)) >> \o add_default_comment
           \o << confirmation("post_created") >>)

\* ---------------------------------------------------------------- posttext
posttext(u) ==
  IF ~is_message_in_correct_group(u.chat) THEN Deny("WRONG_GROUP")
  ELSE IF ~u.isReply THEN Deny("NEED_REPLY")
  ELSE Goto("q_admin")

\* a variant whose length test is off by one
posttext_admin_off_by_one(u, isAdmin) ==
  IF ~isAdmin THEN Deny("NOT_ADMIN")
  ELSE LET admin_post_title == Strip(u.arg)
       IN  IF Len(admin_post_title) < 1 THEN Deny("NO_TITLE")
           ELSE IF Len(admin_post_title) < MinTitleLen - 1 THEN Deny("SHORT_TITLE")
           ELSE Run(<< submit("self", NoUrl) >> \o add_default_comment
                    \o << confirmation("post_created") >>)

posttext_admin(u, isAdmin) ==
  IF ~isAdmin THEN Deny("NOT_ADMIN")
  ELSE LET admin_post_title == Strip(u.arg)
       IN  IF Len(admin_post_title) < 1 THEN Deny("NO_TITLE")
           ELSE IF Len(admin_post_title) < MinTitleLen THEN Deny("SHORT_TITLE")
           ELSE Run(<< submit("self", NoUrl) >> \o add_default_comment
                    \o << confirmation("post_created") >>)

\* ----------------------------------------------------------------- delrule
delrule(u) ==
  IF ~is_message_in_correct_group(u.chat) THEN Deny("WRONG_GROUP")
  ELSE IF ~u.isReply THEN Deny("NEED_REPLY")
  ELSE Goto("q_admin")

rule_number(u) == ParseInt(Split(Strip(u.arg))[1])

\* a variant that fetches the submission before it reads the rule number
delrule_admin_fetch_first(u, isAdmin) ==
  IF ~isAdmin THEN Deny("NOT_ADMIN")
  ELSE IF u.urls = <<>> THEN Deny("NO_LINK_IN_REPLY")
  ELSE IF id_from_url(popitem(u.urls)) = "invalid" THEN Deny("INVALID_REDDIT_LINK")
  ELSE Goto("fetch")

delrule_admin(u, isAdmin) ==
  IF ~isAdmin THEN Deny("NOT_ADMIN")
  ELSE IF u.urls = <<>> THEN Deny("NO_LINK_IN_REPLY")
  ELSE IF id_from_url(popitem(u.urls)) = "invalid" THEN Deny("INVALID_REDDIT_LINK")
  ELSE LET splitted_message == Split(Strip(u.arg))
       IN  IF Len(splitted_message) = 0 THEN Deny("NO_RULE_NUMBER")
           ELSE IF ParseInt(splitted_message[1]) = -1 THEN Deny("INVALID_RULE_NUMBER")
           ELSE IF ParseInt(splitted_message[1]) \notin DOMAIN rules THEN Deny("UNKNOWN_RULE")
           ELSE Goto("fetch")

\* None, which no text equals (a text is a sequence of characters)
None == << "None" >>

\* the note: the text without the command, every occurrence of the decimal
\* form of the rule number removed, stripped; None when the rule number is
\* the only token
note_message(u) ==
  IF Len(Split(Strip(u.arg))) > 1
  THEN Strip(RemoveAll(u.arg, IntToStr(rule_number(u))))
  ELSE None

\* The removal comment.  Its last part is built as
\* "...%2Fr%2F" + self.subreddit + ")", which is str + Subreddit: a TypeError
\* unless self.subreddit is a string.
delete_comment(u, sub_ref) ==
  IF sub_ref.type # "str" THEN [err |-> "TypeError", parts |-> <<>>]
  ELSE [err |-> "none",
        parts |-> << "preamble", rules[rule_number(u)] >>
                  \o (IF note_message(u) # None THEN << "note" >> ELSE <<>>)
                  \o << "modmail" >>]

delrule_fetched(u, sub) ==
  IF sub.community = subreddit.display_name
  THEN LET c == delete_comment(u, subreddit)
       IN  IF c.err # "none" THEN Raise(c.err)
           ELSE Run(<< Op("reply", id_from_url(popitem(u.urls)), c.parts),
                       Op("remove", id_from_url(popitem(u.urls)), "mod"),
                       Op("lock", id_from_url(popitem(u.urls)), "mod"),
                       confirmation("post_deleted") >>)
  ELSE Deny("WRONG_SUBREDDIT")

\* --------------------------------------------------------- message_handler
message_handler(u) ==
  CASE u.kind = "start"    -> start(u)
    [] u.kind = "comment"  -> comment(u)
    [] u.kind = "postlink" -> postlink(u)
    [] u.kind = "posttext" -> posttext(u)
    [] u.kind = "delrule"  -> delrule(u)
    [] u.kind = "other"    -> Goto("dmia")
    [] OTHER               -> Return

\* after is_sender_admin returned
after_admin(u, isAdmin) ==
  CASE u.kind = "postlink" -> postlink_admin(u, isAdmin)
    [] u.kind = "posttext" -> posttext_admin(u, isAdmin)
    [] OTHER               -> delrule_admin(u, isAdmin)

\* after the submission was fetched
after_fetch(u, sub) ==
  IF u.kind = "comment" THEN comment_fetched(u, sub) ELSE delrule_fetched(u, sub)


\* ------------------------------------------------------------------- state
VARIABLES
  pc,            \* where the handler of the current update stands ("idle": none)
  update,        \* the update being handled
  pend,          \* the denial text the handler has chosen, "none" if none
  todo,          \* the remote calls the handler still has to make, in order
  cmdLog,        \* the remote calls the handler has made, in order
  result,        \* "ok": it returned, "error": it raised, "running", "none"
  tg_groups,     \* self.tg_groups: chat id -> cached "is the bot admin here"
  reddit,        \* the content platform: the submissions and their comments
  redditAtStart, \* reddit as it was when the current update arrived
  delThreads,    \* delete_message_with_delay threads that are still sleeping
  admin_group_id, \* self.admin_group_id, read from the configuration at startup
  relay_pc,      \* where check_new_reddit_posts stands ("dead": its thread ended)
  stream,        \* the submissions the stream has yielded so far, in order
  sent,          \* the notifications check_new_reddit_posts has sent, in order
  main_pc,       \* where main stands ("exited": the process has ended)
  files,         \* what main finds at each of the four file names
  exit_code,     \* the exit status of the process once main_pc = "exited"
  handlers,      \* the handlers registered with the dispatcher
  polling,       \* TRUE once updater.start_polling() has been called
  handled,       \* how many updates the dispatcher has passed to message_handler
  default_comment_content, \* self.default_comment_content, the comment file's text
  tg_msg_id,     \* the tg_msg_id argument of add_default_comment
  string_to_send, \* the local string_to_send of add_default_comment
  tpl_pc,        \* where add_default_comment stands
  handler,       \* per pooled handler: the locals of its delete_message_if_admin
  lookups,       \* per chat: how often the bot's own status has been asked for
  arrived        \* how many updates the pooled handlers have taken

commandVars == << pc, update, pend, todo, cmdLog, result, tg_groups, reddit,
                  redditAtStart, delThreads >>

relayVars == << admin_group_id, relay_pc, stream, sent >>

mainVars == << main_pc, files, exit_code, handlers, polling, handled >>

templateVars == << default_comment_content, tg_msg_id, string_to_send, tpl_pc >>

poolVars == << handler, lookups, arrived >>

vars == << commandVars, relayVars, mainVars, templateVars, poolVars >>

Ev(o, t, a) == [op |-> o, tgt |-> t, a |-> a]

Submission(c, l) == [community |-> c, locked |-> l, removed |-> FALSE, replies |-> 0]

\* The submissions that exist when the bot starts: one of the configured
\* community, a locked one of the configured community, one of another.
SubIds == {"own", "locked", "foreign"}

InitCommands ==
  /\ pc = "idle"
  /\ update = NoUpdate
  /\ pend = "none"
  /\ todo = <<>>
  /\ cmdLog = <<>>
  /\ result = "none"
  /\ tg_groups = [c \in Chats |-> "absent"]
  /\ reddit = [subs  |-> [s \in SubIds |->
                            CASE s = "own"    -> Submission("own", FALSE)
                              [] s = "locked" -> Submission("own", TRUE)
                              [] OTHER        -> Submission("other", FALSE)],
               posts |-> <<>>]
  /\ redditAtStart = reddit
  /\ delThreads = 0

\* check_new_reddit_posts has been started and waits for the stream
InitRelayThread ==
  /\ relay_pc = "next"
  /\ stream = <<>>
  /\ sent = <<>>

\* The four file names main opens
FileNames == {"config", "comment", "rules", "cookies"}

\* main has reached updater.idle(): the files were there, the handlers are
\* registered and polling runs
InitStarted ==
  /\ main_pc = "idle"
  /\ files = [f \in FileNames |-> "ok"]
  /\ exit_code = 0
  /\ handlers = {"message_handler", "error_handler"}
  /\ polling = TRUE
  /\ handled = 0

\* The placeholders of the comment file
TG_MSG_ID == <<"{", "T", "G", "_", "M", "S", "G", "_", "I", "D", "}">>
SUBREDDIT == <<"{", "S", "U", "B", "R", "E", "D", "D", "I", "T", "}">>
TG_GROUP  == <<"{", "T", "G", "_", "G", "R", "O", "U", "P", "}">>

\* str(self.subreddit) and str(self.tg_group)
subreddit_str == <<"t", "e", "s", "t">>
tg_group_str  == <<"g", "r", "p">>

\* A tg_msg_id is <<>> for None, <<n>> for the message id n
NoMsgId == <<>>
MsgIds == {NoMsgId, <<7>>, <<45>>}

\* The texts of the comment file: up to MaxPieces placeholders and literals
Literal == <<"a">>
TemplatePieces == {TG_MSG_ID, SUBREDDIT, TG_GROUP, Literal}
TemplateSeqs == UNION { [1..n -> TemplatePieces] : n \in 1..MaxPieces }
Templates == { Flatten(p) : p \in TemplateSeqs }

\* add_default_comment is not running
InitNoTemplate ==
  /\ default_comment_content = Literal
  /\ tg_msg_id = NoMsgId
  /\ string_to_send = <<>>
  /\ tpl_pc = "idle"

\* The handlers of a dispatcher that runs them in a pool of threads
Handlers == {"h1", "h2"}
IdleHandler == [pc |-> "idle", chat |-> authorized_group_id, is_admin |-> "none",
                seen |-> "none"]

InitNoPool ==
  /\ handler = [h \in Handlers |-> IdleHandler]
  /\ lookups = [c \in Chats |-> 0]
  /\ arrived = 0

Init ==
  /\ InitCommands
  /\ admin_group_id = 0
  /\ InitRelayThread
  /\ InitStarted
  /\ InitNoTemplate
  /\ InitNoPool

RECURSIVE SumReplies(_, _)
SumReplies(rd, S) ==
  IF S = {} THEN 0
  ELSE LET s == CHOOSE x \in S : TRUE
       IN  rd.subs[s].replies + SumReplies(rd, S \ {s})

\* What the run has used of its bound
Work == Len(reddit.posts) + SumReplies(reddit, SubIds) + delThreads

\* The handler goes on as plan p says, its log being lg.
Follow(p, lg) ==
  /\ pc' = CASE p.next \in {"deny", "dmia"}  -> "dmia_check"
             [] p.next \in {"raise", "done"} -> "done"
             [] OTHER                        -> p.next
  /\ pend' = p.deny
  /\ todo' = p.todo
  /\ result' = CASE p.next = "raise" -> "error"
                 [] p.next = "done"  -> "ok"
                 [] OTHER            -> "running"
  /\ cmdLog' = IF p.next = "raise" THEN Append(lg, Ev("raise", "handler", p.err)) ELSE lg

\* The handler ends with an exception raised by a remote call.
Fail(lg, what) ==
  /\ pc' = "done"
  /\ result' = "error"
  /\ todo' = <<>>
  /\ cmdLog' = Append(lg, Ev("raise", what, "RemoteError"))
  /\ UNCHANGED pend

\* The handler returns.
Finish(lg) ==
  /\ pc' = "done"
  /\ result' = "ok"
  /\ todo' = <<>>
  /\ cmdLog' = lg
  /\ UNCHANGED pend

\* An update arrives and message_handler runs up to its first remote call.
Receive ==
  /\ pc = "idle"
  /\ Work < MaxWork
  /\ \E u \in Updates :
       /\ update' = u
       /\ Follow(message_handler(u), <<>>)
  /\ redditAtStart' = reddit
  /\ UNCHANGED << tg_groups, reddit, delThreads >>
  /\ UNCHANGED << relayVars, mainVars, templateVars, poolVars >>

\* is_sender_admin(bot, chat, sender): bot.get_chat_member answers with the
\* sender's status of the moment, then the handler's next checks run.
QueryAdmin ==
  /\ pc = "q_admin"
  /\ \E status \in Statuses \cup {"raise"} :
       IF status # "raise"
       THEN Follow(after_admin(update, is_sender_admin(status)),
                   Append(cmdLog, Ev("get_chat_member", "sender", status)))
       ELSE Fail(cmdLog, "get_chat_member")
  /\ UNCHANGED << update, tg_groups, reddit, redditAtStart, delThreads >>
  /\ UNCHANGED << relayVars, mainVars, templateVars, poolVars >>

\* reddit.submission(id) and the first read of the submission (its lazy fetch)
Fetch ==
  /\ pc = "fetch"
  /\ LET sid == id_from_url(popitem(update.urls))
     IN  \E ok \in BOOLEAN :
           IF ok
           THEN Follow(after_fetch(update, reddit.subs[sid]),
                       Append(cmdLog, Ev("fetch", sid, "submission")))
           ELSE Fail(cmdLog, "fetch")
  /\ UNCHANGED << update, tg_groups, reddit, redditAtStart, delThreads >>
  /\ UNCHANGED << relayVars, mainVars, templateVars, poolVars >>

\* get_page_title_from_url(link_to_post): the page has a title, has an empty
\* one (""), has none (None), or the request raises
get_page_title_from_url ==
  /\ pc = "web_get"
  /\ \E title \in {"title", "", "none", "raise"} :
       IF title = "raise"
       THEN Fail(cmdLog, "web_get")
       ELSE Follow(postlink_title(update, title),
                   Append(cmdLog, Ev("web_get", link_to_post(update).scheme, title)))
  /\ UNCHANGED << update, tg_groups, reddit, redditAtStart, delThreads >>
  /\ UNCHANGED << relayVars, mainVars, templateVars, poolVars >>

\* The effect of a remote call on the content platform
Effect(o, rd) ==
  LET n == Len(rd.posts)
  IN  CASE o.op = "submit" ->
             [rd EXCEPT !.posts = Append(@, [kind |-> o.a.kind, replies |-> 0, stickied |-> 0])]
        [] o.op = "reply" /\ o.tgt = "new" ->
             [rd EXCEPT !.posts[n].replies = @ + 1]
        [] o.op = "reply" /\ o.tgt # "new" ->
             [rd EXCEPT !.subs[o.tgt].replies = @ + 1]
        [] o.op = "distinguish" ->
             [rd EXCEPT !.posts[n].stickied = @ + 1]
        [] o.op = "remove" ->
             [rd EXCEPT !.subs[o.tgt].removed = TRUE]
        [] o.op = "lock" ->
             [rd EXCEPT !.subs[o.tgt].locked = TRUE]
        [] OTHER -> rd

\* a variant that catches the exception and goes on with the rest
on_remote_error_swallowed(failed, rest) == rest

\* What is left of the handler's list when one of its remote calls raises:
\* nothing catches the exception, so nothing.
on_remote_error(failed, rest) == <<>>

\* The next remote call of the handler's list
RemoteCall ==
  /\ pc = "run"
  /\ todo # <<>>
  /\ \E ok \in BOOLEAN :
       LET rest == IF ok THEN Tail(todo) ELSE on_remote_error(Head(todo), Tail(todo))
           lg   == Append(cmdLog, IF ok THEN Head(todo)
                                  ELSE Ev("raise", Head(todo).op, "RemoteError"))
       IN  /\ reddit' = IF ok THEN Effect(Head(todo), reddit) ELSE reddit
           /\ cmdLog' = lg
           /\ todo' = rest
           /\ pc' = IF rest = <<>> THEN "done" ELSE pc
           /\ result' = IF ~ok THEN "error" ELSE IF rest = <<>> THEN "ok" ELSE result
  /\ UNCHANGED << update, pend, tg_groups, redditAtStart, delThreads >>
  /\ UNCHANGED << relayVars, mainVars, templateVars, poolVars >>

\* delete_message_if_admin returned: a denial is sent next, if one is pending
DmiaReturn(lg) ==
  IF pend = "none"
  THEN Finish(lg)
  ELSE /\ pc' = "send_private"
       /\ cmdLog' = lg
       /\ UNCHANGED << result, todo, pend >>

\* a variant that asks for the bot's status at every call
DmiaCheck_requery ==
  /\ pc = "dmia_check"
  /\ tg_groups' = [tg_groups EXCEPT ![update.chat] = "unset"]
  /\ pc' = "dmia_query"
  /\ UNCHANGED << cmdLog, result, todo, pend >>
  /\ UNCHANGED << update, reddit, redditAtStart, delThreads >>
  /\ UNCHANGED << relayVars, mainVars, templateVars, poolVars >>

\* delete_message_if_admin, up to its remote call: the cache lookup
DmiaCheck ==
  /\ pc = "dmia_check"
  /\ LET c == update.chat
     IN  CASE tg_groups[c] = "absent" ->
                /\ tg_groups' = [tg_groups EXCEPT ![c] = "unset"]
                /\ pc' = "dmia_query"
                /\ UNCHANGED << cmdLog, result, todo, pend >>
           [] tg_groups[c] = "unset" ->
                \* the cached chat has no is_admin attribute
                /\ pc' = "done"
                /\ result' = "error"
                /\ cmdLog' = Append(cmdLog, Ev("raise", "is_admin", "AttributeError"))
                /\ UNCHANGED << tg_groups, todo, pend >>
           [] tg_groups[c] = "admin" ->
                /\ pc' = "dmia_delete"
                /\ UNCHANGED << tg_groups, cmdLog, result, todo, pend >>
           [] OTHER ->
                /\ DmiaReturn(cmdLog)
                /\ UNCHANGED tg_groups
  /\ UNCHANGED << update, reddit, redditAtStart, delThreads >>
  /\ UNCHANGED << relayVars, mainVars, templateVars, poolVars >>

\* is_sender_admin(bot, chat, bot.id) and the caching of its answer
DmiaQuery ==
  /\ pc = "dmia_query"
  /\ \E answer \in {"admin", "notadmin", "raise"} :
       IF answer = "raise"
       THEN /\ Fail(cmdLog, "get_chat_member")
            /\ UNCHANGED tg_groups
       ELSE /\ tg_groups' = [tg_groups EXCEPT ![update.chat] = answer]
            /\ LET lg == Append(cmdLog, Ev("get_chat_member", "bot", answer))
               IN  IF answer = "admin"
                   THEN /\ pc' = "dmia_delete"
                        /\ cmdLog' = lg
                        /\ UNCHANGED << result, todo, pend >>
                   ELSE DmiaReturn(lg)
  /\ UNCHANGED << update, reddit, redditAtStart, delThreads >>
  /\ UNCHANGED << relayVars, mainVars, templateVars, poolVars >>

\* a variant that passes no delay for an unknown command
seconds_delay_none(u) == 0

\* the seconds_delay argument message_handler and the handlers pass to
\* delete_message_if_admin
seconds_delay(u) == IF u.kind = "other" THEN UnknownCommandDelay ELSE 0

\* the deletion itself: at once, or by a new thread that sleeps first
DmiaDelete ==
  /\ pc = "dmia_delete"
  /\ IF seconds_delay(update) > 0
     THEN /\ delThreads' = delThreads + 1
          /\ DmiaReturn(Append(cmdLog, Ev("Thread.start", "delete_message_with_delay", "spawn")))
     ELSE /\ delThreads' = delThreads
          /\ \E ok \in BOOLEAN :
               IF ok
               THEN DmiaReturn(Append(cmdLog, Ev("delete_message", "chat", "command")))
               ELSE Fail(cmdLog, "delete_message")
  /\ UNCHANGED << update, tg_groups, reddit, redditAtStart >>
  /\ UNCHANGED << relayVars, mainVars, templateVars, poolVars >>

\* delete_message_with_delay: the sleep is over, the message is deleted (or
\* the call raises and the thread dies); either way the thread ends.
delete_message_with_delay ==
  /\ delThreads > 0
  /\ delThreads' = delThreads - 1
  /\ UNCHANGED << pc, update, pend, todo, cmdLog, result, tg_groups, reddit, redditAtStart >>
  /\ UNCHANGED << relayVars, mainVars, templateVars, poolVars >>

\* send_tg_message_reply_or_private: the private message
SendPrivate ==
  /\ pc = "send_private"
  /\ \E ok \in BOOLEAN :
       IF ok
       THEN Finish(Append(cmdLog, Ev("send_message", "private", pend)))
       ELSE /\ pc' = "send_group"
            /\ cmdLog' = Append(cmdLog, Ev("raise", "send_message", "TelegramError"))
            /\ UNCHANGED << result, todo, pend >>
  /\ UNCHANGED << update, tg_groups, reddit, redditAtStart, delThreads >>
  /\ UNCHANGED << relayVars, mainVars, templateVars, poolVars >>

\* a variant that mentions the user by handle whether there is one or not
text_to_send_mention(user, text) ==
  [op |-> "send_message", tgt |-> "chat", a |-> text,
   prefix |-> << "@", user.username >>]

\* The message of the fallback: the text after "@" + username, or, for a
\* user without username, after "[" + first_name (+ " " + last_name) +
\* ", imposta un username!]"
text_to_send(user, text) ==
  [op |-> "send_message", tgt |-> "chat", a |-> text,
   prefix |-> IF user.username = NoName
              THEN << "[", user.first_name >>
                   \o (IF user.last_name # NoName THEN << " ", user.last_name >> ELSE <<>>)
                   \o << ", imposta un username!]" >>
              ELSE << "@", user.username >>]

\* send_tg_message_reply_or_private: the fallback in the chat
SendGroup ==
  /\ pc = "send_group"
  /\ \E ok \in BOOLEAN :
       IF ok
       THEN Finish(Append(cmdLog, text_to_send(update.from_user, pend)))
       ELSE Fail(cmdLog, "send_message")
  /\ UNCHANGED << update, tg_groups, reddit, redditAtStart, delThreads >>
  /\ UNCHANGED << relayVars, mainVars, templateVars, poolVars >>

\* message_handler is over (returned, or raised into the dispatcher, which
\* calls error_handler): the dispatcher is ready for the next update.
Dispatched ==
  /\ pc = "done"
  /\ pc' = "idle"
  /\ update' = NoUpdate
  /\ pend' = "none"
  /\ todo' = <<>>
  /\ cmdLog' = <<>>
  /\ result' = "none"
  /\ redditAtStart' = reddit
  /\ UNCHANGED << tg_groups, reddit, delThreads >>
  /\ UNCHANGED << relayVars, mainVars, templateVars, poolVars >>

Next ==
  \/ Receive
  \/ QueryAdmin
  \/ Fetch
  \/ get_page_title_from_url
  \/ RemoteCall
  \/ DmiaCheck
  \/ DmiaQuery
  \/ DmiaDelete
  \/ delete_message_with_delay
  \/ SendPrivate
  \/ SendGroup
  \/ Dispatched

Spec == Init /\ [][Next]_vars

TypeOK ==
  /\ pc \in {"idle", "done", "q_admin", "fetch", "web_get", "run", "dmia_check",
             "dmia_query", "dmia_delete", "send_private", "send_group"}
  /\ result \in {"none", "running", "ok", "error"}
  /\ Work <= MaxWork

\* ------------------------------------------------- check_new_reddit_posts
\* The thread of check_new_reddit_posts shares no state with the command
\* path (it reads the stream and the configuration only), so it is explored
\* by a specification of its own, SpecRelay, in which no update arrives.

\* the account the bot is logged in with, self.reddit.user.me().name
me == "bot"

\* submission.author of a submission whose account was deleted is None
NoAuthor == "None"

\* The submissions the stream may yield: one the bot's account has made, one
\* of another account, one whose author is gone.  The stream may yield a
\* submission more than once.
StreamItems == { [id |-> "t3_own",  author |-> me],
                 [id |-> "t3_user", author |-> "user"],
                 [id |-> "t3_gone", author |-> NoAuthor] }

\* the two notifications, for the submission at position k of the stream
Full(k) == [kind |-> "title_author_shortlink", k |-> k]
Abbr(k) == [kind |-> "title_shortlink", k |-> k]

\* a variant that spares the admin group the bot's own submissions
relay_after_yield_own_skipped(s, admin) ==
  IF s.author = NoAuthor THEN "dead"
  ELSE IF admin # 0 /\ s.author # me THEN "admin"
  ELSE "me"

\* Where the loop body goes once the stream has yielded s: building
\* notification_content reads submission.author.name, an AttributeError
\* when the author is None; then the admin group is notified if one is
\* configured; then the author is compared with the bot's account.
relay_after_yield(s, admin) ==
  IF s.author = NoAuthor THEN "dead"
  ELSE IF admin # 0 THEN "admin"
  ELSE "me"

\* for submission in self.subreddit.stream.submissions(skip_existing=True):
\* the stream yields, notification_content is built
check_new_reddit_posts ==
  /\ relay_pc = "next"
  /\ Len(stream) < MaxStream
  /\ \E s \in StreamItems :
       /\ stream' = Append(stream, s)
       /\ relay_pc' = relay_after_yield(s, admin_group_id)
  /\ UNCHANGED << admin_group_id, sent >>
  /\ UNCHANGED << commandVars, mainVars, templateVars, poolVars >>

\* bot_ref.send_message(self.admin_group_id, notification_content); nothing
\* catches what it raises, so the thread ends with it
send_admin_notification ==
  /\ relay_pc = "admin"
  /\ \E ok \in BOOLEAN :
       IF ok
       THEN /\ sent' = Append(sent, Ev("send_message", admin_group_id, Full(Len(stream))))
            /\ relay_pc' = "me"
       ELSE /\ relay_pc' = "dead"
            /\ UNCHANGED sent
  /\ UNCHANGED << admin_group_id, stream >>
  /\ UNCHANGED << commandVars, mainVars, templateVars, poolVars >>

\* a variant that notifies the authorized group whoever the author is
relay_after_compare_any_author(s) == "group"

\* if submission.author != self.reddit.user.me().name: the authorized group
\* is notified next, else the loop takes the next submission
relay_after_compare(s) == IF s.author # me THEN "group" ELSE "next"

\* submission.author != self.reddit.user.me().name; user.me() is a request
\* (or praw's cached answer) and may raise
compare_author ==
  /\ relay_pc = "me"
  /\ \E ok \in BOOLEAN :
       relay_pc' = IF ~ok THEN "dead" ELSE relay_after_compare(stream[Len(stream)])
  /\ UNCHANGED << admin_group_id, stream, sent >>
  /\ UNCHANGED << commandVars, mainVars, templateVars, poolVars >>

\* bot_ref.send_message(self.authorized_group_id, title + shortlink)
send_group_notification ==
  /\ relay_pc = "group"
  /\ \E ok \in BOOLEAN :
       IF ok
       THEN /\ sent' = Append(sent, Ev("send_message", authorized_group_id, Abbr(Len(stream))))
            /\ relay_pc' = "next"
       ELSE /\ relay_pc' = "dead"
            /\ UNCHANGED sent
  /\ UNCHANGED << admin_group_id, stream >>
  /\ UNCHANGED << commandVars, mainVars, templateVars, poolVars >>

\* a chat id other than the authorized group's, for the admin group
AdminGroupId == authorized_group_id + 2

InitRelay ==
  /\ InitCommands
  /\ admin_group_id \in {0, AdminGroupId}
  /\ InitRelayThread
  /\ InitStarted
  /\ InitNoTemplate
  /\ InitNoPool

NextRelay ==
  \/ check_new_reddit_posts
  \/ send_admin_notification
  \/ compare_author
  \/ send_group_notification

SpecRelay == InitRelay /\ [][NextRelay]_vars

\* ------------------------------------------------------------ vocabulary
AdminCommands == {"postlink", "posttext", "delrule"}
LinkCommands  == {"comment", "postlink", "delrule"}
Commands      == AdminCommands \cup {"comment"}

\* the positions of the log whose call changed the content platform
Mutations(lg) == {i \in 1..Len(lg) : lg[i].op \in MutatingOps}

\* the sender's status as a membership query of this command returned it
SenderQueries(lg) ==
  {i \in 1..Len(lg) : lg[i].op = "get_chat_member" /\ lg[i].tgt = "sender"}

\* the denial messages that reached the sender, privately or in the chat
Denials(lg) ==
  {i \in 1..Len(lg) : lg[i].op = "send_message" /\ lg[i].tgt \in {"private", "chat"}}

\* the remote calls that raised
RemoteErrors(lg) ==
  {i \in 1..Len(lg) : lg[i].op = "raise" /\ lg[i].a = "RemoteError"}

Untouched == reddit = redditAtStart /\ Mutations(cmdLog) = {}

\* the submission a command with a link is applied to
Target(u) == id_from_url(popitem(u.urls))

\* ---------------------------------------------------------------------- C1
\* C1: the content platform is changed only by a command issued in the
\* authorized group and, for postlink, posttext and delrule, only after a
\* membership query of that same command returned administrator or creator;
\* a command whose query returned another status is denied and changes nothing
\* (whatever earlier commands were allowed to do), and nothing changes between
\* commands.
C1_MutationOnlyAuthorized ==
  /\ \A i \in Mutations(cmdLog) :
       /\ update.chat = authorized_group_id
       /\ update.kind \in AdminCommands =>
            \E j \in SenderQueries(cmdLog) :
               j < i /\ cmdLog[j].a \in {"administrator", "creator"}
  /\ reddit # redditAtStart => Mutations(cmdLog) # {}
  /\ \A j \in SenderQueries(cmdLog) :
       cmdLog[j].a \notin {"administrator", "creator"} =>
          pend = "NOT_ADMIN" /\ Untouched

\* a postlink is denied for want of moderator status after an earlier command
\* of a moderator has created a submission
C1_Witness ==
  /\ pc = "done" /\ update.kind = "postlink" /\ pend = "NOT_ADMIN"
  /\ Denials(cmdLog) # {}
  /\ Len(reddit.posts) >= 1

\* ---------------------------------------------------------------------- C2
IsModerator(lg) ==
  \E j \in SenderQueries(lg) : lg[j].a \in {"administrator", "creator"}

NoLinkDenial(k) == IF k = "postlink" THEN "NO_URL" ELSE "NO_LINK_IN_REPLY"

\* C2: postlink, posttext and delrule evaluate (1) the chat, (2) the reply
\* target, (3) the sender's membership, (4) the link of the reply target, in
\* this order: the denial chosen, and every denial sent, is the one of the
\* first check that fails, and the sender's membership is queried at most once
\* and never when check 1 or 2 fails.
C2_PreconditionOrder ==
  update.kind \in AdminCommands =>
    LET q == SenderQueries(cmdLog)
    IN  /\ update.chat # authorized_group_id => pend = "WRONG_GROUP" /\ q = {}
        /\ update.chat = authorized_group_id /\ ~update.isReply =>
             pend = "NEED_REPLY" /\ q = {}
        /\ q # {} /\ ~IsModerator(cmdLog) => pend = "NOT_ADMIN"
        /\ IsModerator(cmdLog) /\ update.kind \in LinkCommands /\ update.urls = <<>> =>
             pend = NoLinkDenial(update.kind)
        /\ IsModerator(cmdLog) /\ update.kind = "postlink" /\ Len(update.urls) > 1 =>
             pend = "MULTIPLE_URLS"
        /\ pend \in {"NO_URL", "NO_LINK_IN_REPLY", "MULTIPLE_URLS"} => IsModerator(cmdLog)
        /\ pend = "NOT_ADMIN" => update.chat = authorized_group_id /\ update.isReply
        /\ Cardinality(q) <= 1
        /\ \A i \in Denials(cmdLog) : cmdLog[i].a = pend

\* a postlink that fails checks 1, 2 and 4 at once got the denial of check 1
C2_Witness ==
  /\ pc = "done" /\ update.kind = "postlink"
  /\ update.chat # authorized_group_id /\ ~update.isReply /\ update.urls = <<>>
  /\ \E i \in Denials(cmdLog) : cmdLog[i].a = "WRONG_GROUP"

\* ---------------------------------------------------------------------- C3
FirstToken(u) == Split(Strip(u.arg))[1]

\* the precondition failures the specification lists, read off the update
\* and the answer to the membership query
FailsPrecondition(u, lg) ==
  /\ u.kind \in Commands
  /\ \/ u.chat # authorized_group_id
     \/ ~u.isReply
     \/ u.kind \in AdminCommands /\ SenderQueries(lg) # {} /\ ~IsModerator(lg)
     \/ u.kind \in LinkCommands /\ Len(u.urls) # 1
     \/ u.kind = "postlink" /\ Len(u.urls) = 1
          /\ u.urls[1].scheme \notin {"", "http", "https"}
     \/ u.kind = "delrule"
          /\ \/ Split(Strip(u.arg)) = <<>>
             \/ ParseInt(FirstToken(u)) \notin DOMAIN rules
     \/ u.kind = "posttext" /\ Len(Strip(u.arg)) < MinTitleLen

\* C3 (as claimed): a command that fails a precondition leaves the content
\* platform as it was: it makes no submit, reply, distinguish, remove or lock.
C3_Claim ==
  FailsPrecondition(update, cmdLog) => Untouched

\* ---------------------------------------------------------------------- C4
GroupSendFailed(lg) == \E i \in RemoteErrors(lg) : lg[i].tgt = "send_message"

\* C4 (as claimed): a command that chose a denial has, when its handler is
\* over, delivered exactly one denial message to the sender, also when the
\* deletion of the command message or the lookup before it failed (only the
\* failure of both sends excuses it).
C4_Claim ==
  pc = "done" /\ update.kind \in Commands /\ pend # "none" /\ ~GroupSendFailed(cmdLog) =>
    Cardinality(Denials(cmdLog)) = 1

\* ---------------------------------------------------------------------- C5
Acted(lg) == \E i \in 1..Len(lg) : lg[i].op \in {"fetch", "web_get"}

\* C5 (as claimed): comment, postlink and delrule never act on one of two or
\* more URLs of the reply target, and deny a reply target without URL.
C5_Claim ==
  update.kind \in LinkCommands =>
    /\ Len(update.urls) >= 2 =>
         pc \notin {"fetch", "web_get", "run"} /\ ~Acted(cmdLog) /\ Untouched
    /\ pc = "done" /\ result = "ok" /\ update.urls = <<>> => pend # "none"

\* ---------------------------------------------------------------------- C6
PassesDelrule(u, lg) ==
  /\ u.kind = "delrule" /\ u.chat = authorized_group_id /\ u.isReply
  /\ Len(u.urls) = 1 /\ Target(u) \in SubIds
  /\ redditAtStart.subs[Target(u)].community = subreddit.display_name
  /\ IsModerator(lg)
  /\ Split(Strip(u.arg)) # <<>> /\ ParseInt(FirstToken(u)) \in DOMAIN rules

OpsAfterFetch(lg) ==
  LET S == {i \in 1..Len(lg) : lg[i].op = "fetch"}
      f == IF S = {} THEN 0 ELSE CHOOSE i \in S : TRUE
  IN  [k \in 1..(Len(lg) - f) |-> lg[f + k].op]

\* C6 (as claimed): a delrule that passes every precondition on a submission
\* of the configured community, no remote call failing, posts the removal
\* comment (preamble, rule text, note if any, modmail link), removes and locks
\* the submission and sends the confirmation.
C6_Claim ==
  pc = "done" /\ PassesDelrule(update, cmdLog) /\ RemoteErrors(cmdLog) = {} =>
    /\ result = "ok"
    /\ \E i \in 1..Len(cmdLog) :
         /\ cmdLog[i].op = "reply"
         /\ cmdLog[i].tgt = Target(update)
         /\ cmdLog[i].a = << "preamble", rules[ParseInt(FirstToken(update))] >>
                          \o (IF Len(Split(Strip(update.arg))) > 1 THEN << "note" >> ELSE <<>>)
                          \o << "modmail" >>
    /\ reddit.subs[Target(update)].replies = redditAtStart.subs[Target(update)].replies + 1
    /\ reddit.subs[Target(update)].removed
    /\ reddit.subs[Target(update)].locked
    /\ \E i \in 1..Len(cmdLog) :
         cmdLog[i].op = "send_message" /\ cmdLog[i].tgt = "authorized_group"

\* ---------------------------------------------------------------------- C7
Before(lg, a, b) ==
  \A j \in 1..Len(lg) : lg[j].op = b => \E i \in 1..(j - 1) : lg[i].op = a

\* C7 (as claimed): in delrule the remote steps happen in the order reply,
\* remove, lock, confirmation: none of them precedes the one before it, and a
\* delrule that got as far as its steps, no remote call failing, has made
\* exactly these four calls in this order.
C7_Claim ==
  update.kind = "delrule" =>
    /\ Before(cmdLog, "reply", "remove")
    /\ Before(cmdLog, "remove", "lock")
    /\ \A j \in 1..Len(cmdLog) :
         cmdLog[j].op = "send_message" /\ cmdLog[j].tgt = "authorized_group" =>
           \E i \in 1..(j - 1) : cmdLog[i].op = "lock"
    /\ pc = "done" /\ pend = "none" /\ RemoteErrors(cmdLog) = {} /\ Acted(cmdLog) =>
         OpsAfterFetch(cmdLog) = << "reply", "remove", "lock", "send_message" >>

\* ---------------------------------------------------------------------- C8
RECURSIVE Replay(_, _)
Replay(lg, rd) ==
  IF lg = <<>> THEN rd
  ELSE Replay(Tail(lg), IF Head(lg).op \in MutatingOps THEN Effect(Head(lg), rd) ELSE rd)

WorkflowOps == MutatingOps \cup {"send_message", "reply_text"}

\* C8: the content platform holds exactly the effects of the calls the command
\* has made so far (none undone), and when a remote call of a workflow raises,
\* that is the last thing the command does: the calls still to make are
\* dropped, the handler ends with the error, and neither the confirmation nor
\* any other message is sent.
C8_NotTransactional ==
  /\ reddit = Replay(cmdLog, redditAtStart)
  /\ \A i \in RemoteErrors(cmdLog) :
       pend = "none" /\ cmdLog[i].tgt \in WorkflowOps =>
         /\ i = Len(cmdLog)
         /\ todo = <<>> /\ pc = "done" /\ result = "error"
         /\ \A k \in 1..Len(cmdLog) : cmdLog[k].op # "send_message"

\* postlink created the submission, the boilerplate reply raised: the
\* submission stays there without comment
C8_Witness ==
  /\ pc = "done" /\ result = "error" /\ update.kind = "postlink"
  /\ Len(reddit.posts) = Len(redditAtStart.posts) + 1
  /\ reddit.posts[Len(reddit.posts)].replies = 0
  /\ cmdLog[Len(cmdLog)].op = "raise" /\ cmdLog[Len(cmdLog)].tgt = "reply"

\* ---------------------------------------------------------------------- C9
Fetched(lg) == \E i \in 1..Len(lg) : lg[i].op = "fetch"

ForeignTarget(u) ==
  /\ u.urls # <<>> /\ Target(u) \in SubIds
  /\ redditAtStart.subs[Target(u)].community # subreddit.display_name

\* C9: no submission of another community is ever replied to, removed or
\* locked; comment and delrule applied to one make no mutating call at all
\* and, once they have fetched it, choose the wrong-community denial.
C9_OtherCommunityRejected ==
  /\ \A s \in SubIds :
       reddit.subs[s].community # subreddit.display_name =>
         reddit.subs[s].replies = 0 /\ ~reddit.subs[s].removed /\ ~reddit.subs[s].locked
  /\ update.kind \in {"comment", "delrule"} /\ ForeignTarget(update) =>
       /\ Untouched
       /\ \A i \in 1..Len(todo) : todo[i].op \notin MutatingOps
       /\ Fetched(cmdLog) => pend = "WRONG_SUBREDDIT"

\* a comment on a submission of another community was denied
C9_Witness ==
  /\ pc = "done" /\ update.kind = "comment" /\ ForeignTarget(update)
  /\ Fetched(cmdLog)
  /\ \E i \in Denials(cmdLog) : cmdLog[i].a = "WRONG_SUBREDDIT"

\* --------------------------------------------------------------------- C10
LockedTarget(u) ==
  /\ u.urls # <<>> /\ Target(u) \in SubIds
  /\ redditAtStart.subs[Target(u)].community = subreddit.display_name
  /\ redditAtStart.subs[Target(u)].locked

\* C10: comment on a locked submission of the configured community posts no
\* reply and, once it has fetched the submission, chooses the locked denial;
\* every reply comment posts is on a submission that was not locked.
C10_LockedRejected ==
  update.kind = "comment" =>
    /\ LockedTarget(update) =>
         /\ Untouched
         /\ \A i \in 1..Len(todo) : todo[i].op \notin MutatingOps
         /\ Fetched(cmdLog) => pend = "POST_LOCKED"
    /\ \A i \in Mutations(cmdLog) :
         cmdLog[i].op = "reply" /\ ~redditAtStart.subs[cmdLog[i].tgt].locked

\* a comment on a locked submission was denied
C10_Witness ==
  /\ pc = "done" /\ update.kind = "comment" /\ LockedTarget(update)
  /\ \E i \in Denials(cmdLog) : cmdLog[i].a = "POST_LOCKED"

\* --------------------------------------------------------------------- C11
\* a comment command that meets what the handler asks of it
GoodComment(u) ==
  /\ u.kind = "comment" /\ u.chat = authorized_group_id /\ u.isReply
  /\ Len(u.urls) = 1 /\ Target(u) \in SubIds
  /\ redditAtStart.subs[Target(u)].community = subreddit.display_name
  /\ ~redditAtStart.subs[Target(u)].locked

\* C11: comment never queries the sender's membership, so it cannot depend on
\* it: a comment in the authorized group that replies to a message with one
\* link to an unlocked submission of the configured community, and whose
\* handler returns, has posted the comment on that submission and then
\* confirmed it in the group.
C11_CommentNeedsNoModerator ==
  update.kind = "comment" =>
    /\ pc # "q_admin"
    /\ SenderQueries(cmdLog) = {}
    /\ GoodComment(update) /\ pc = "done" /\ result = "ok" =>
         /\ pend = "none"
         /\ \E i, j \in 1..Len(cmdLog) :
              /\ i < j
              /\ cmdLog[i] = Op("reply", Target(update), "comment")
              /\ cmdLog[j] = confirmation("comment_added")
         /\ reddit.subs[Target(update)].replies
              = redditAtStart.subs[Target(update)].replies + 1

\* a comment was posted and confirmed without any query about its sender
C11_Witness ==
  /\ pc = "done" /\ result = "ok" /\ GoodComment(update)
  /\ SenderQueries(cmdLog) = {}
  /\ cmdLog[Len(cmdLog)] = confirmation("comment_added")
  /\ reddit.subs[Target(update)].replies = 1

\* --------------------------------------------------------------------- C12
\* the argument of a delrule names no rule of the table
BadRuleArg(u) ==
  \/ Split(Strip(u.arg)) = <<>>
  \/ ParseInt(FirstToken(u)) \notin DOMAIN rules

RuleDenial(u) ==
  IF Split(Strip(u.arg)) = <<>> THEN "NO_RULE_NUMBER"
  ELSE IF ParseInt(FirstToken(u)) = -1 THEN "INVALID_RULE_NUMBER"
  ELSE "UNKNOWN_RULE"

\* C12: a delrule without argument, or whose first token is no integer or no
\* key of the rule table, never calls the content platform (no fetch, reply,
\* remove or lock, done or planned); once the sender is known to be a
\* moderator it is denied, and with the message of its rule-number fault when
\* the checks that come before (chat, reply target, membership, link) pass.
C12_BadRuleNumberDenied ==
  update.kind = "delrule" /\ BadRuleArg(update) =>
    /\ pc \notin {"fetch", "run"}
    /\ todo = <<>>
    /\ ~Fetched(cmdLog)
    /\ Untouched
    /\ IsModerator(cmdLog) => pend # "none"
    /\ IsModerator(cmdLog) /\ update.urls # <<>> /\ Target(update) # "invalid" =>
         pend = RuleDenial(update)
    /\ \A i \in Denials(cmdLog) : cmdLog[i].a = pend

\* a moderator's delrule with a number that is no rule, on a valid link, got
\* the unknown-rule denial and nothing was fetched
C12_Witness ==
  /\ pc = "done" /\ update.kind = "delrule" /\ IsModerator(cmdLog)
  /\ update.urls # <<>> /\ Target(update) = "own"
  /\ Split(Strip(update.arg)) # <<>> /\ ParseInt(FirstToken(update)) = 99
  /\ \E i \in Denials(cmdLog) : cmdLog[i].a = "UNKNOWN_RULE"
  /\ ~Fetched(cmdLog)

\* --------------------------------------------------------------------- C13
\* the text that follows the first token of the argument, None if there is none
NoteAfterNumber(u) ==
  LET a == Strip(u.arg)
  IN  IF Len(Split(a)) > 1
      THEN Strip(SubSeq(a, Len(FirstToken(u)) + 1, Len(a)))
      ELSE None

\* C13 (as claimed): when delrule is about to fetch the submission, the note
\* it has prepared for the removal comment is the argument without its
\* leading rule-number token and nothing else removed, whatever the note
\* contains; there is no note when nothing follows the number.
C13_Claim ==
  update.kind = "delrule" /\ pc = "fetch" =>
    note_message(update) = NoteAfterNumber(update)

\* --------------------------------------------------------------------- C14
\* the title of a posttext: its text without the command token, stripped
TitleOf(u) == Strip(u.arg)

\* the handler's first workflow call is o: made, raised, or about to be made
FirstCallIs(o) ==
  \/ pc = "run" /\ Mutations(cmdLog) = {} /\ todo # <<>> /\ Head(todo) = o
  \/ \E i \in 1..Len(cmdLog) :
        /\ \/ cmdLog[i].op = o.op /\ cmdLog[i] = o
           \/ cmdLog[i].op = "raise" /\ cmdLog[i].tgt = o.op
        /\ \A j \in 1..(i - 1) : cmdLog[j].op = "get_chat_member" \/ cmdLog[j].op = "web_get"

\* C14: a posttext of a moderator (in the authorized group, as a reply) is
\* accepted if and only if its title has at least 6 characters: with an empty
\* title it gets the add-a-title denial, with 1 to 5 characters the
\* title-too-short denial, and in both cases nothing is submitted; with 6 or
\* more it gets no denial and submits a self-text post, which is on the
\* platform once the submit call has returned.
C14_TitleLength ==
  update.kind = "posttext" /\ IsModerator(cmdLog) =>
    LET n == Len(TitleOf(update))
    IN  /\ n = 0 => pend = "NO_TITLE" /\ Untouched /\ todo = <<>>
        /\ n \in 1..(MinTitleLen - 1) => pend = "SHORT_TITLE" /\ Untouched /\ todo = <<>>
        /\ n >= MinTitleLen =>
             /\ pend = "none"
             /\ FirstCallIs(submit("self", NoUrl))
             /\ (\E i \in 1..Len(cmdLog) : cmdLog[i].op = "submit") =>
                  /\ Len(reddit.posts) = Len(redditAtStart.posts) + 1
                  /\ reddit.posts[Len(reddit.posts)].kind = "self"
        /\ \A i \in Denials(cmdLog) : cmdLog[i].a = pend

\* a title of exactly 6 characters was accepted and the self-text post made
C14_Witness ==
  /\ pc = "done" /\ result = "ok" /\ update.kind = "posttext"
  /\ Len(TitleOf(update)) = MinTitleLen
  /\ Len(reddit.posts) = 1 /\ reddit.posts[1].kind = "self"
  /\ cmdLog[Len(cmdLog)] = confirmation("post_created")

\* --------------------------------------------------------------------- C15
\* the link as the claim has it used: 'https://' before a link without scheme
Normalized(url) == IF url.scheme = "" THEN [url EXCEPT !.scheme = "https"] ELSE url

\* C15: a postlink of a moderator on a reply target with one URL: when the
\* scheme is neither absent nor http nor https the command gets the HTTP(S)
\* denial and the title fetcher is never called; otherwise the fetcher is
\* called next, and both the fetch and the submission use the link with
\* 'https://' put before it when it had no scheme and unchanged when its
\* scheme is http or https.
C15_SchemeHandling ==
  update.kind = "postlink" /\ IsModerator(cmdLog) /\ Len(update.urls) = 1 =>
    LET url == update.urls[1]
    IN  /\ url.scheme \notin {"", "http", "https"} =>
             /\ pend = "NOT_HTTP" /\ pc # "web_get" /\ Untouched /\ todo = <<>>
             /\ \A i \in 1..Len(cmdLog) : cmdLog[i].op # "web_get"
             /\ \A i \in RemoteErrors(cmdLog) : cmdLog[i].tgt # "web_get"
        /\ url.scheme \in {"", "http", "https"} =>
             /\ pend # "NOT_HTTP"
             /\ \/ pc = "web_get"
                \/ \E i \in 1..Len(cmdLog) : cmdLog[i].op = "web_get"
                \/ \E i \in RemoteErrors(cmdLog) : cmdLog[i].tgt = "web_get"
        /\ \A i \in 1..Len(cmdLog) :
             /\ cmdLog[i].op = "web_get" => cmdLog[i].tgt = Normalized(url).scheme
             /\ cmdLog[i].op = "submit" =>
                  /\ cmdLog[i].a = [kind |-> "link", url |-> Normalized(url)]
                  /\ reddit.posts[Len(reddit.posts)].kind = "link"
        /\ \A i \in 1..Len(todo) : todo[i].op = "submit" => todo[i].a.url = Normalized(url)

\* a link without scheme was fetched and submitted as an https link
C15_Witness ==
  /\ pc = "done" /\ result = "ok" /\ update.kind = "postlink"
  /\ Len(update.urls) = 1 /\ update.urls[1].scheme = ""
  /\ \E i \in 1..Len(cmdLog) : cmdLog[i].op = "web_get" /\ cmdLog[i].tgt = "https"
  /\ \E i \in 1..Len(cmdLog) : cmdLog[i].op = "submit" /\ cmdLog[i].a.url.scheme = "https"
  /\ Len(reddit.posts) >= 1 /\ reddit.posts[Len(reddit.posts)].kind = "link"

\* --------------------------------------------------------------------- C16
TitleObtained(lg, i) ==
  \E j \in 1..(i - 1) : lg[j].op = "web_get" /\ lg[j].a = "title"

\* C16: a postlink whose title fetch returns no title (None or the empty
\* string) gets the could-not-find-the-page-title denial and submits
\* nothing; a link post is submitted, attempted or planned only after the
\* fetch returned a non-empty title.
C16_NoTitleNoPost ==
  update.kind = "postlink" =>
    /\ \A i \in 1..Len(cmdLog) :
         cmdLog[i].op = "web_get" /\ cmdLog[i].a \in {"none", ""} =>
           /\ pend = "NO_PAGE_TITLE" /\ Untouched /\ todo = <<>> /\ pc # "run"
           /\ \A j \in RemoteErrors(cmdLog) : cmdLog[j].tgt # "submit"
    /\ \A i \in 1..Len(cmdLog) :
         \/ cmdLog[i].op = "submit"
         \/ cmdLog[i].op = "raise" /\ cmdLog[i].tgt = "submit"
         => TitleObtained(cmdLog, i)
    /\ todo # <<>> => TitleObtained(cmdLog, Len(cmdLog) + 1)
    /\ reddit # redditAtStart => TitleObtained(cmdLog, Len(cmdLog) + 1)
    /\ pend = "NO_PAGE_TITLE" =>
         \E i \in 1..Len(cmdLog) : cmdLog[i].op = "web_get" /\ cmdLog[i].a \in {"none", ""}

\* the fetch returned no title, the denial was sent, nothing was submitted
C16_Witness ==
  /\ pc = "done" /\ update.kind = "postlink" /\ pend = "NO_PAGE_TITLE"
  /\ \E i \in 1..Len(cmdLog) : cmdLog[i].op = "web_get" /\ cmdLog[i].a = "none"
  /\ \E i \in Denials(cmdLog) : cmdLog[i].a = "NO_PAGE_TITLE"
  /\ reddit = redditAtStart

\* --------------------------------------------------------------------- C17
PostCommands == {"postlink", "posttext"}

\* the positions of the log at which the call o was made
Calls(lg, o) == {i \in 1..Len(lg) : lg[i].op = o.op /\ lg[i] = o}

Created == Len(reddit.posts) > Len(redditAtStart.posts)

\* the submission made last carries exactly one comment, distinguished
HasBoilerplate ==
  LET p == reddit.posts[Len(reddit.posts)]
  IN  p.replies = 1 /\ p.stickied = 1

\* C17 (as claimed): every submission that a postlink or posttext has created
\* carries the boilerplate comment when the handler is over.
C17_Claim ==
  update.kind \in PostCommands /\ pc = "done" /\ Created => HasBoilerplate

\* C17 (amended): postlink and posttext make their calls in the order submit,
\* reply with the boilerplate, distinguish as sticky, confirm, each at most
\* once and none before the one it follows; so the confirmation is only ever
\* sent when the new submission carries exactly one distinguished boilerplate
\* comment, and every such command that returns after its submit has
\* attached the comment and confirmed.  (A call that raises ends the handler
\* and may leave a submission without the comment.)
C17_BoilerplateOrder ==
  update.kind \in PostCommands =>
    LET subm == {i \in 1..Len(cmdLog) : cmdLog[i].op = "submit"}
        repl == Calls(cmdLog, add_default_comment[1])
        dist == {i \in 1..Len(cmdLog) : cmdLog[i].op = "distinguish"}
        conf == Calls(cmdLog, confirmation("post_created"))
    IN  /\ Cardinality(subm) <= 1 /\ Cardinality(repl) <= 1
        /\ Cardinality(dist) <= 1 /\ Cardinality(conf) <= 1
        /\ \A i \in repl : \E j \in subm : j < i
        /\ \A i \in dist : \E j \in repl : j < i
        /\ \A i \in conf : \E j \in dist : j < i
        /\ \A i \in Mutations(cmdLog) : cmdLog[i].op \in {"submit", "reply", "distinguish"}
        /\ conf # {} => Created /\ HasBoilerplate
        /\ Created =>
             /\ Len(reddit.posts) = Len(redditAtStart.posts) + 1
             /\ reddit.posts[Len(reddit.posts)].stickied
                  <= reddit.posts[Len(reddit.posts)].replies
             /\ reddit.posts[Len(reddit.posts)].replies <= 1
        /\ pc = "done" /\ result = "ok" /\ Created => HasBoilerplate /\ conf # {}

\* a post command is over, its confirmation sent, its submission carrying the
\* one distinguished comment
C17_Witness ==
  /\ pc = "done" /\ result = "ok" /\ update.kind \in PostCommands
  /\ Created /\ HasBoilerplate
  /\ Calls(cmdLog, confirmation("post_created")) # {}

\* --------------------------------------------------------------------- C18
\* C18 (as claimed): no submission ends the relay: whatever happens while one
\* is handled (a send raises, the author is missing), the thread of
\* check_new_reddit_posts lives on and takes the next submission.
C18_Claim == relay_pc # "dead"

\* --------------------------------------------------------------------- C19
\* the relay is through with the submission at position k of the stream
Handled(k) == k < Len(stream) \/ (k = Len(stream) /\ relay_pc = "next")

AbbrSent(k) ==
  \E n \in 1..Len(sent) : sent[n] = Ev("send_message", authorized_group_id, Abbr(k))

FullSent(k) ==
  \E n \in 1..Len(sent) : sent[n].a = Full(k)

\* the stream yields at position k a submission it has not yielded before
FirstSight(k) == \A j \in 1..(k - 1) : stream[j].id # stream[k].id

\* C19 (as claimed): a submission the bot has created is spared the
\* abbreviated notification once, on its first sight, after which it is no
\* longer marked (it is consumed at most once), so a later occurrence of it is
\* notified like any other; a submission of someone else always gets the
\* abbreviated notification.
C19_Claim ==
  \A k \in 1..Len(stream) :
    Handled(k) =>
      /\ stream[k].author = me => (AbbrSent(k) <=> ~FirstSight(k))
      /\ stream[k].author = "user" => AbbrSent(k)

\* --------------------------------------------------------------------- C20
\* the relay is past the admin step for the submission at position k
PastAdminStep(k) == Handled(k) \/ (k = Len(stream) /\ relay_pc \in {"me", "group"})

\* C20: for every submission the relay has taken past its first step, the
\* full notification has been sent, once and to the admin group, if and only
\* if admin_group_id is not 0, whoever its author is; no full notification
\* is ever sent when admin_group_id is 0; and with an admin group configured
\* the abbreviated notification of a submission comes after its full one.
C20_AdminNotification ==
  /\ \A k \in 1..Len(stream) :
       /\ PastAdminStep(k) => (FullSent(k) <=> admin_group_id # 0)
       /\ Cardinality({n \in 1..Len(sent) : sent[n].a = Full(k)}) <= 1
  /\ \A n \in 1..Len(sent) :
       /\ sent[n].a.kind = Full(1).kind =>
            admin_group_id # 0 /\ sent[n].tgt = admin_group_id
       /\ sent[n].a.kind = Abbr(1).kind /\ admin_group_id # 0 =>
            \E m \in 1..(n - 1) : sent[m] = Ev("send_message", admin_group_id, Full(sent[n].a.k))

\* with an admin group configured, the relay is through with a submission of
\* the bot's own account and with one of another account: both got the full
\* notification, the second one before its abbreviated one
C20_Witness ==
  /\ admin_group_id # 0
  /\ \E j, k \in 1..Len(stream) :
       /\ Handled(j) /\ stream[j].author = me /\ FullSent(j) /\ ~AbbrSent(j)
       /\ Handled(k) /\ stream[k].author = "user" /\ FullSent(k) /\ AbbrSent(k)

\* --------------------------------------------------------------------- C21
\* the delete_message_with_delay threads the handler has started
Spawned(lg) == {i \in 1..Len(lg) : lg[i].op = "Thread.start"}

\* C21: a message that starts with '/' and is none of the five commands gets
\* no denial and changes nothing on the content platform; its handler never
\* deletes the message itself and never waits: it starts at most one
\* delete_message_with_delay thread (which sleeps 5 seconds, then deletes),
\* and when it returns it has started one if and only if the bot is recorded
\* as administrator of the chat.
C21_UnknownCommand ==
  update.kind = "other" =>
    /\ pend = "none" /\ Denials(cmdLog) = {} /\ todo = <<>> /\ Untouched
    /\ pc \in {"dmia_check", "dmia_query", "dmia_delete", "done"}
    /\ seconds_delay(update) = UnknownCommandDelay
    /\ \A i \in 1..Len(cmdLog) : cmdLog[i].op # "delete_message"
    /\ Cardinality(Spawned(cmdLog)) <= 1
    /\ Spawned(cmdLog) # {} => tg_groups[update.chat] = "admin"
    /\ pc = "done" /\ result = "ok" =>
         (Spawned(cmdLog) # {} <=> tg_groups[update.chat] = "admin")

\* the handler of an unknown command in the authorized group has returned
\* while the thread it started is still asleep
C21_Witness ==
  /\ update.kind = "other" /\ update.chat = authorized_group_id
  /\ pc = "done" /\ result = "ok"
  /\ Spawned(cmdLog) # {} /\ delThreads >= 1

\* --------------------------------------------------------------------- C22
PrivateSent(lg) ==
  {i \in 1..Len(lg) : lg[i].op = "send_message" /\ lg[i].tgt = "private"}

PrivateFailed(lg) ==
  {i \in 1..Len(lg) :
     lg[i].op = "raise" /\ lg[i].tgt = "send_message" /\ lg[i].a = "TelegramError"}

GroupSent(lg) ==
  {i \in 1..Len(lg) : lg[i].op = "send_message" /\ lg[i].tgt = "chat"}

\* what the fallback is to put before the text: the mention of a user with a
\* public handle, else the user's name and the request to set a handle
Mention(user) ==
  IF user.username # NoName THEN << "@", user.username >>
  ELSE IF user.last_name # NoName
       THEN << "[", user.first_name, " ", user.last_name, ", imposta un username!]" >>
       ELSE << "[", user.first_name, ", imposta un username!]" >>

\* C22: a denial goes to the originating chat only after its private send
\* raised a TelegramError, and then at most once (exactly once when the
\* handler is over and that second send did not raise), with the same text,
\* after '@username' for a user with a public handle and after the user's
\* name and the request to set one otherwise; when the private send
\* succeeded nothing is sent in the chat.
C22_PrivateFallback ==
  /\ PrivateSent(cmdLog) # {} => GroupSent(cmdLog) = {} /\ pc # "send_group"
  /\ pc = "send_group" \/ GroupSent(cmdLog) # {} => PrivateFailed(cmdLog) # {}
  /\ Cardinality(GroupSent(cmdLog)) <= 1
  /\ Cardinality(PrivateSent(cmdLog)) + Cardinality(PrivateFailed(cmdLog)) <= 1
  /\ \A i \in GroupSent(cmdLog) :
       cmdLog[i].a = pend /\ cmdLog[i].prefix = Mention(update.from_user)
  /\ \A i \in PrivateSent(cmdLog) : cmdLog[i].a = pend
  /\ pc = "done" /\ PrivateFailed(cmdLog) # {} /\ ~GroupSendFailed(cmdLog) =>
       Cardinality(GroupSent(cmdLog)) = 1

\* the private send to a user without handle failed and the denial was sent
\* in the chat after the user's name and the request
C22_Witness ==
  /\ pc = "done" /\ update.from_user.username = NoName
  /\ update.from_user.last_name # NoName
  /\ PrivateFailed(cmdLog) # {}
  /\ \E i \in GroupSent(cmdLog) :
       cmdLog[i].a = "NEED_REPLY" /\ cmdLog[i].prefix = Mention(update.from_user)

\* --------------------------------------------------------------------- C25
\* the queries of the bot's own status, the deletions and the threads started
BotQueries(lg) ==
  {i \in 1..Len(lg) : lg[i].op = "get_chat_member" /\ lg[i].tgt = "bot"}

Deletions(lg) ==
  {i \in 1..Len(lg) : lg[i].op \in {"delete_message", "Thread.start"}}

\* the lookup of the bot's status has raised in this command
BotQueryRaised(lg) ==
  \E i \in RemoteErrors(lg) : lg[i].tgt = "get_chat_member" /\ SenderQueries(lg) = {}

\* C25: handlers running one after another.  The bot's status in a chat is
\* asked for only in a step that starts with no answer cached for the chat,
\* and only by the first delete attempt there: an entry of the cache is
\* never removed and an answer once cached never changes, so there is at
\* most one query per chat.  A delete attempt that finds an answer cached
\* makes no query and deletes (or schedules the deletion of) the command
\* message if and only if that answer is true.
C25_AdminCache ==
  [][ /\ \A c \in Chats :
           /\ tg_groups[c] # "absent" => tg_groups'[c] # "absent"
           /\ tg_groups[c] \in {"admin", "notadmin"} => tg_groups'[c] = tg_groups[c]
      /\ pc # "dmia_query" /\ pc' = "dmia_query" =>
           tg_groups[update.chat] = "absent" /\ tg_groups'[update.chat] # "absent"
      /\ Len(cmdLog') > Len(cmdLog) /\ Len(cmdLog') \in BotQueries(cmdLog') =>
           /\ pc = "dmia_query"
           /\ tg_groups'[update.chat] = cmdLog'[Len(cmdLog')].a
      /\ Cardinality(BotQueries(cmdLog')) <= 1
      /\ Len(cmdLog') > Len(cmdLog) /\ Len(cmdLog') \in Deletions(cmdLog') =>
           tg_groups'[update.chat] = "admin"
      /\ pc' = "done" /\ pc \in {"dmia_check", "dmia_delete", "dmia_query"}
            /\ result' = "ok" /\ pend = "none" =>
           (Deletions(cmdLog') # {} <=> tg_groups'[update.chat] = "admin")
      /\ pc' = "send_private" /\ pc # "send_private" =>
           (Deletions(cmdLog') # {} <=> tg_groups'[update.chat] = "admin")
    ]_vars

\* a command message was deleted on the strength of an answer cached by an
\* earlier command: this command made no query
C25_Witness ==
  /\ pc = "done" /\ update.chat = authorized_group_id
  /\ tg_groups[update.chat] = "admin"
  /\ BotQueries(cmdLog) = {}
  /\ \E i \in 1..Len(cmdLog) : cmdLog[i].op = "delete_message"

\* --------------------------------------------------------------------- C28
\* C28 (as claimed): a moderator's delrule whose argument names no rule and
\* whose reply target's link is no valid submission link gets the denial of
\* its rule-number fault, the rule number being looked at before the link.
C28_Claim ==
  /\ update.kind = "delrule" /\ IsModerator(cmdLog)
  /\ update.urls # <<>> /\ Target(update) = "invalid"
  /\ BadRuleArg(update)
  => pend = RuleDenial(update)

\* --------------------------------------------------------------------- C27
AbbrCount(k) ==
  Cardinality({n \in 1..Len(sent) :
                 sent[n] = Ev("send_message", authorized_group_id, Abbr(k))})

\* C27: the relay works on the submissions in the order of the stream (the
\* notifications sent follow the positions of the stream, and none is for a
\* submission other than the last one yielded when it is sent); for every
\* submission it is through with, the authorized group got exactly one
\* abbreviated notification when the author is not the bot's account and
\* none when it is, on every occurrence of the submission in the stream.
C27_AuthorSuppression ==
  /\ \A k \in 1..Len(stream) :
       /\ Handled(k) => AbbrCount(k) = IF stream[k].author # me THEN 1 ELSE 0
       /\ stream[k].author = me => AbbrCount(k) = 0
       /\ AbbrCount(k) <= 1
  /\ \A n \in 1..Len(sent) :
       /\ sent[n].a.k \in 1..Len(stream)
       /\ \A m \in 1..(n - 1) : sent[m].a.k <= sent[n].a.k
  /\ relay_pc \in {"admin", "me", "group"} =>
       \A n \in 1..Len(sent) : sent[n].a.k < Len(stream) \/ sent[n].a = Full(Len(stream))

\* the stream has yielded the bot's own submission twice and then one of
\* another account: only the last one was notified to the authorized group
C27_Witness ==
  /\ Len(stream) >= 3 /\ Handled(3)
  /\ stream[1].author = me /\ stream[2] = stream[1] /\ stream[3].author = "user"
  /\ AbbrCount(1) = 0 /\ AbbrCount(2) = 0 /\ AbbrCount(3) = 1

\* ------------------------------------------------- add_default_comment text
\* The text add_default_comment builds, one statement per step.  SpecTemplate
\* explores it for every text of the comment file and every tg_msg_id.
otherVarsTemplate == << commandVars, relayVars, mainVars, poolVars >>

\* string_to_send = self.default_comment_content
template_start ==
  /\ tpl_pc = "start"
  /\ string_to_send' = default_comment_content
  /\ tpl_pc' = "msg_id"
  /\ UNCHANGED << default_comment_content, tg_msg_id, otherVarsTemplate >>

\* the replacement of {TG_MSG_ID}: "" if tg_msg_id is None, else "/" + str(tg_msg_id)
msg_id_text(id) == IF id = NoMsgId THEN <<>> ELSE <<"/">> \o IntToStr(id[1])

replace_tg_msg_id ==
  /\ tpl_pc = "msg_id"
  /\ string_to_send' = replace(string_to_send, TG_MSG_ID, msg_id_text(tg_msg_id))
  /\ tpl_pc' = "subreddit"
  /\ UNCHANGED << default_comment_content, tg_msg_id, otherVarsTemplate >>

replace_subreddit ==
  /\ tpl_pc = "subreddit"
  /\ string_to_send' = replace(string_to_send, SUBREDDIT, subreddit_str)
  /\ tpl_pc' = "tg_group"
  /\ UNCHANGED << default_comment_content, tg_msg_id, otherVarsTemplate >>

\* after this step string_to_send is what post_submission.reply is given
replace_tg_group ==
  /\ tpl_pc = "tg_group"
  /\ string_to_send' = replace(string_to_send, TG_GROUP, tg_group_str)
  /\ tpl_pc' = "reply"
  /\ UNCHANGED << default_comment_content, tg_msg_id, otherVarsTemplate >>

InitTemplate ==
  /\ InitCommands
  /\ admin_group_id = 0
  /\ InitRelayThread
  /\ InitStarted
  /\ InitNoPool
  /\ default_comment_content \in Templates
  /\ tg_msg_id \in MsgIds
  /\ string_to_send = <<>>
  /\ tpl_pc = "start"

NextTemplate ==
  \/ template_start
  \/ replace_tg_msg_id
  \/ replace_subreddit
  \/ replace_tg_group

SpecTemplate == InitTemplate /\ [][NextTemplate]_vars

\* ---- C24
\* the comment file's text as placeholders and literals
PiecesOf(text) == CHOOSE p \in TemplateSeqs : Flatten(p) = text

\* the text with each placeholder replaced by the text v gives for it
Substituted(text, v) ==
  Flatten([i \in DOMAIN PiecesOf(text) |->
             IF PiecesOf(text)[i] = Literal THEN Literal ELSE v[PiecesOf(text)[i]]])

NoPlaceholder(text) ==
  \A t \in {TG_MSG_ID, SUBREDDIT, TG_GROUP} : ~Contains(text, t)

\* the values themselves: str(tg_msg_id) or "", the community name, the group name
Verbatim ==
  [t \in {TG_MSG_ID, SUBREDDIT, TG_GROUP} |->
     CASE t = TG_MSG_ID -> IF tg_msg_id = NoMsgId THEN <<>> ELSE IntToStr(tg_msg_id[1])
       [] t = SUBREDDIT -> subreddit_str
       [] OTHER         -> tg_group_str]

\* the same with a "/" before the message id
SlashBeforeId ==
  [Verbatim EXCEPT ![TG_MSG_ID] = IF tg_msg_id = NoMsgId THEN <<>> ELSE <<"/">> \o @]

otherVarsMain == << commandVars, templateVars, poolVars, admin_group_id, stream, sent >>

\* a file that is ok, missing (FileNotFoundError) or malformed (json.load raises)
FileStates == {"ok", "missing", "malformed"}

\* a variant of the try around a file that logs a missing file and goes on
read_file_lenient(state, next) ==
  IF state = "malformed" THEN [pc |-> "exited", code |-> 1]
  ELSE [pc |-> next, code |-> 0]

\* try: open and read; except FileNotFoundError: quit(1).  Any other
\* exception is not caught: the interpreter prints it and exits with 1.
read_file(state, next) ==
  CASE state = "missing"   -> [pc |-> "exited", code |-> 1]
    [] state = "malformed" -> [pc |-> "exited", code |-> 1]
    [] OTHER               -> [pc |-> next, code |-> 0]

MainGoes(r) ==
  /\ main_pc' = r.pc
  /\ exit_code' = r.code
  /\ UNCHANGED << files, handlers, polling, handled, relay_pc, otherVarsMain >>

read_config ==
  /\ main_pc = "config"
  /\ MainGoes(read_file(files["config"], "comment"))

read_comment ==
  /\ main_pc = "comment"
  /\ MainGoes(read_file(files["comment"], "rules"))

read_rules ==
  /\ main_pc = "rules"
  /\ MainGoes(read_file(files["rules"], "cookies"))

\* except FileNotFoundError: log and go on
load_cookies ==
  /\ main_pc = "cookies"
  /\ MainGoes(IF files["cookies"] = "malformed"
              THEN [pc |-> "exited", code |-> 1]
              ELSE [pc |-> "login", code |-> 0])

\* Reddit(...), the subreddit's display_name and title, Updater(...): a remote
\* call that raises is not caught
reddit_login ==
  /\ main_pc = "login"
  /\ \E ok \in BOOLEAN :
       MainGoes(IF ok THEN [pc |-> "handlers", code |-> 0]
                      ELSE [pc |-> "exited", code |-> 1])

add_handlers ==
  /\ main_pc = "handlers"
  /\ handlers' = {"message_handler", "error_handler"}
  /\ main_pc' = "polling"
  /\ UNCHANGED << files, exit_code, polling, handled, relay_pc, otherVarsMain >>

start_polling ==
  /\ main_pc = "polling"
  /\ polling' = TRUE
  /\ main_pc' = "thread"
  /\ UNCHANGED << files, exit_code, handlers, handled, relay_pc, otherVarsMain >>

\* Thread(target=self.check_new_reddit_posts).start(), then updater.idle()
start_relay_thread ==
  /\ main_pc = "thread"
  /\ relay_pc' = "next"
  /\ main_pc' = "idle"
  /\ UNCHANGED << files, exit_code, handlers, polling, handled, otherVarsMain >>

\* the dispatcher passes an update it polled to the registered message_handler
dispatch_update ==
  /\ polling
  /\ "message_handler" \in handlers
  /\ main_pc # "exited"
  /\ handled < MaxHandled
  /\ handled' = handled + 1
  /\ UNCHANGED << main_pc, files, exit_code, handlers, polling, relay_pc, otherVarsMain >>

InitStartup ==
  /\ InitCommands
  /\ InitNoTemplate
  /\ InitNoPool
  /\ admin_group_id = 0
  /\ stream = <<>>
  /\ sent = <<>>
  /\ relay_pc = "unstarted"
  /\ main_pc = "config"
  /\ files \in [FileNames -> FileStates]
  /\ files["comment"] # "malformed"
  /\ exit_code = 0
  /\ handlers = {}
  /\ polling = FALSE
  /\ handled = 0

MainStep ==
  \/ read_config
  \/ read_comment
  \/ read_rules
  \/ load_cookies
  \/ reddit_login
  \/ add_handlers
  \/ start_polling
  \/ start_relay_thread

NextStartup ==
  \/ MainStep
  \/ dispatch_update

\* main runs on the main thread of the process and nothing makes it wait
\* before updater.idle()
SpecStartup == InitStartup /\ [][NextStartup]_vars /\ WF_vars(MainStep)

\* ---- C23
RequiredFiles == {"config", "comment", "rules"}
AnyMissing == \E f \in RequiredFiles : files[f] = "missing"

NotServing ==
  /\ handlers = {}
  /\ ~polling
  /\ relay_pc = "unstarted"
  /\ handled = 0

\* C23: when the configuration file, the comment file or the rules file is
\* missing at startup, the process ends with a non-zero exit status, no
\* handler is registered, polling is not started, the relay thread is not
\* started and no update is ever handled.
C23_MissingFileAborts ==
  /\ [](AnyMissing => NotServing /\ (main_pc = "exited" => exit_code # 0))
  /\ (AnyMissing ~> main_pc = "exited")

C23_Witness ==
  /\ files = [f \in FileNames |-> IF f = "rules" THEN "missing" ELSE "ok"]
  /\ main_pc = "exited"
  /\ exit_code = 1
  /\ NotServing

\* ------------------------------------ delete_message_if_admin, two handlers
\* delete_message_if_admin as run by handlers of a dispatcher that takes
\* updates on a pool of threads: one step per access to self.tg_groups and
\* per remote call, in any interleaving.  There is no lock in the function.
otherVarsPool == << pc, update, pend, todo, cmdLog, result, reddit, redditAtStart,
                    delThreads, relayVars, mainVars, templateVars >>

HandlerGoes(h, l) == handler' = [handler EXCEPT ![h].pc = l]

\* a handler takes an update of chat c and calls delete_message_if_admin
pool_receive(h) ==
  /\ handler[h].pc = "idle"
  /\ arrived < MaxArrived
  /\ arrived' = arrived + 1
  /\ \E c \in Chats :
       handler' = [handler EXCEPT ![h] = [IdleHandler EXCEPT !.pc = "check", !.chat = c]]
  /\ UNCHANGED << tg_groups, lookups, otherVarsPool >>

\* if tg_group.id not in self.tg_groups
pool_check(h) ==
  /\ handler[h].pc = "check"
  /\ HandlerGoes(h, IF tg_groups[handler[h].chat] = "absent" THEN "insert" ELSE "read")
  /\ UNCHANGED << tg_groups, lookups, arrived, otherVarsPool >>

\* self.tg_groups[tg_group.id] = tg_group: the chat of this update, no is_admin
pool_insert(h) ==
  /\ handler[h].pc = "insert"
  /\ tg_groups' = [tg_groups EXCEPT ![handler[h].chat] = "unset"]
  /\ HandlerGoes(h, "query")
  /\ UNCHANGED << lookups, arrived, otherVarsPool >>

\* is_admin = self.is_sender_admin(bot, tg_group.id, bot.id)
pool_query(h) ==
  /\ handler[h].pc = "query"
  /\ lookups' = [lookups EXCEPT ![handler[h].chat] = @ + 1]
  /\ \E answer \in {"admin", "notadmin", "raise"} :
       handler' = [handler EXCEPT ![h].pc = IF answer = "raise" THEN "idle" ELSE "set",
                                  ![h].is_admin = answer]
  /\ UNCHANGED << tg_groups, arrived, otherVarsPool >>

\* self.tg_groups[tg_group.id].is_admin = is_admin, then the deletion
pool_set(h) ==
  /\ handler[h].pc = "set"
  /\ tg_groups' = [tg_groups EXCEPT ![handler[h].chat] = handler[h].is_admin]
  /\ HandlerGoes(h, "idle")
  /\ UNCHANGED << lookups, arrived, otherVarsPool >>

\* if self.tg_groups[tg_group.id].is_admin, then the deletion
pool_read(h) ==
  /\ handler[h].pc = "read"
  /\ handler' = [handler EXCEPT ![h].pc = "idle", ![h].seen = tg_groups[handler[h].chat]]
  /\ UNCHANGED << tg_groups, lookups, arrived, otherVarsPool >>

InitPool ==
  /\ InitCommands
  /\ admin_group_id = 0
  /\ InitRelayThread
  /\ InitStarted
  /\ InitNoTemplate
  /\ InitNoPool

NextPool ==
  \E h \in Handlers :
    \/ pool_receive(h)
    \/ pool_check(h)
    \/ pool_insert(h)
    \/ pool_query(h)
    \/ pool_set(h)
    \/ pool_read(h)

SpecPool == InitPool /\ [][NextPool]_vars

\* ---- C26
\* a handler is between its check of the cache and the end of its set
InFlight(h) == handler[h].pc \in {"insert", "query", "set"}

\* C26 as stated: with two handlers of one chat running at once, no handler
\* reads a cache entry whose admin flag is not set yet, and the bot's status
\* in a chat is looked up once only.
C26_Claim ==
  /\ \A h \in Handlers :
       handler[h].seen = "unset" =>
         ~ \E g \in Handlers \ {h} : InFlight(g) /\ handler[g].chat = handler[h].chat
  /\ \A c \in Chats : lookups[c] <= 1

\* the lookups alone
C26_OneLookup == \A c \in Chats : lookups[c] <= 1

\* the reads alone
C26_NoUnsetRead ==
  \A h \in Handlers :
    handler[h].seen = "unset" =>
      ~ \E g \in Handlers \ {h} : InFlight(g) /\ handler[g].chat = handler[h].chat

====
